---- MODULE Spec2Model ----
(***************************************************************************)
(* Rate limiting of inbound requests by app/middleware/rate_limit.py       *)
(* (RateLimitMiddleware over a Redis sorted set), as registered by         *)
(* app/main.py, together with the API key record's rate_limit that the     *)
(* management endpoints of app/api/v1/endpoints/api_keys.py write.         *)
(*                                                                         *)
(* Time is counted in ticks of 1/TicksPerSecond second, so that the        *)
(* integer truncations int(...) of the code are visible.  One client       *)
(* identity sends up to MaxRequests requests; each request is one run of   *)
(* RateLimitMiddleware.dispatch, split at its await points.                *)
(***************************************************************************)
EXTENDS Integers, FiniteSets, Sequences, TLC

\* ---------------------------------------------------------------- bounds
MaxRequests == 3
\* number of requests the server handles at the same time
MaxInFlight == 2
\* number of events around the requests: clock advances, changes of the
\* backend's reachability, update_api_key calls
MaxEvents == 1
\* resolution of the clock: ticks per second
TicksPerSecond == 2
\* settings.RATE_LIMIT_DEFAULT of the modelled deployment (an environment
\* setting; the shipped default is 1000)
RATE_LIMIT_DEFAULT == 1

\* latest tick at which the first request of a retry scenario is sent
MaxStart == 4

\* rows of the api_keys table
MaxKeys == 3
\* distinct values of the first 12 characters of a generated key
MaxPrefixes == 2
\* secrets generate_api_key hands out
MaxSecrets == 3
\* writes to the database: management operations, entity writes, changes of
\* a user's is_active
MaxChanges == 2
\* requests sent through the limiter to the API router, one per tick
MaxInbound == 2

\* ------------------------------------------------------ program constants
\* "now - 60", "expire(redis_key, 60)", "+ 60": the window in seconds
WINDOW_SECONDS == 60

Window == WINDOW_SECONDS * TicksPerSecond
Reqs == 1..MaxRequests
\* values of APIKey.rate_limit used by create/update (schema: 1..10000)
RateLimitValues == {RATE_LIMIT_DEFAULT, RATE_LIMIT_DEFAULT + 1}
\* the credential the client presents
Creds == {"apikey", "bearer", "anon"}
\* clock advances: one tick, one tick less than a window, a window
TickSteps == {1, Window - 1, Window}
NoTime == -1
None == 0

\* int(x) of a time in ticks, in seconds
int(t) == t \div TicksPerSecond

VARIABLES
    clock,        \* time.time(), in ticks
    events,       \* number of clock advances, backend changes and key updates
    backendUp,    \* the Redis server is reachable
    strategy,     \* the rate limiting middleware class registered in main.py
    redis,        \* RateLimitMiddleware.redis: "None" or "client"
    zset,         \* members of the identity's sorted set (member = score = now)
    expireAt,     \* absolute expiry of the sorted-set key, or NoTime
    cache,        \* value of the Redis string apikey:config:<prefix>, or None
    keyRateLimit, \* APIKey.rate_limit of the client's API key record
    cred,         \* credential kind of the client
    req,          \* per request: position in dispatch and its locals
    probeUp,      \* history: backend reachable when the process started
    pastLimits,   \* history: every value keyRateLimit has had
    expected,     \* history: requests admitted whose entry is neither pruned nor expired
    waited,       \* history: the rejected request whose Retry-After the client waited out
    keys,         \* the api_keys table: record id -> row, or NoKey
    users,        \* the users table: is_active of each user
    store,        \* the companies and contacts tables
    changes,      \* number of writes to the database so far
    last,         \* the request handled last by the API router, with its answer
    requests,     \* SimpleRateLimitMiddleware.requests[key] of the identity
    windows,      \* the sorted sets of the Redis server: redis_key -> members
    inbound       \* the request that went through the middleware last

\* the state of the rate limiter
rateVars == <<clock, events, backendUp, strategy, redis, zset, expireAt,
              cache, keyRateLimit, cred, req, probeUp, pastLimits, expected>>

\* the state behind the API router: authentication, access guard, endpoints
authVars == <<keys, users, store, changes, last>>

\* the in-process limiter, and the limiter in front of the API router
edgeVars == <<requests, windows, inbound>>

vars == <<rateVars, waited, authVars, edgeVars>>

\* ------------------------------------------------------------ main.py 42-51
\* app.add_middleware only records the class: it does not construct the
\* middleware and does not contact Redis, so it does not raise.
AddMiddlewareRaises == FALSE

SelectMiddleware ==
    IF AddMiddlewareRaises THEN "SimpleRateLimitMiddleware"
                           ELSE "RateLimitMiddleware"

\* ------------------------------------------------------------ the backend
Expired == expireAt # NoTime /\ clock >= expireAt

\* the sorted set as the server sees it now
Live == IF Expired THEN {} ELSE zset

LiveExpected == IF Expired THEN {} ELSE expected

\* ZREMRANGEBYSCORE key 0 window_start: scores <= now - 60 are removed
Pruned(s, now) == {m \in s : m > now - Window}

Min(s) == CHOOSE m \in s : \A n \in s : m <= n

\* ZRANGE key 0 0 WITHSCORES, then the reset time (lines 134-138, 143-147)
ResetTime(s, now) == IF s # {} THEN int(Min(s)) + WINDOW_SECONDS
                               ELSE int(now) + WINDOW_SECONDS

\* ----------------------------------------------------------- the requests
NewReq == [pc |-> "idle", now |-> NoTime, rate_limit |-> 0,
           current_count |-> 0, allowed |-> FALSE, checked |-> FALSE,
           remaining |-> 0, reset_time |-> 0, status |-> 0,
           retry_after |-> 0, pstep |-> 0, alone |-> FALSE,
           served |-> FALSE, lookup |-> "none"]

InFlight(q) == req[q].pc \notin {"idle", "done"}

HasApiKey == cred = "apikey"

\* an exception other than the HTTPException of line 185 escapes dispatch:
\* the server answers 500
Raise(q) == [q EXCEPT !.pc = "done", !.status = 500]

\* check_rate_limit lines 101-109, reached without suspension
EnterCheck(q, rl, redisNow) ==
    IF redisNow = "None"
    THEN [q EXCEPT !.rate_limit = rl, !.allowed = TRUE, !.remaining = rl,
                   !.reset_time = int(clock) + WINDOW_SECONDS,
                   !.pc = "call_next"]
    ELSE [q EXCEPT !.rate_limit = rl, !.now = clock, !.pc = "pipe"]

\* dispatch lines 160-168, up to the await of redis.get
AfterStartup(q, redisNow) ==
    IF HasApiKey /\ redisNow # "None"
    THEN [q EXCEPT !.pc = "get"]
    ELSE EnterCheck(q, RATE_LIMIT_DEFAULT, redisNow)

\* ------------------------------------------------- behind the API router
KeyIds == 1..MaxKeys
Users == {"u1", "u2"}
Prefixes == 1..MaxPrefixes
\* a full key is its first 12 characters and the rest; the rest is the serial
\* number of the generated secret, 0 for a value no row's hash verifies
\* (never generated, or replaced by regenerate_api_key)
\* bearer tokens: a token signed for a user, or one that does not decode
Tokens == Users \cup {"bad"}
Absent == "absent"
\* a request without X-API-Key
NoApiKey == <<0, 0>>

\* AccessLevel
Levels == {"read", "write", "admin"}

NoKey == [exists |-> FALSE]

NoRequest == [op |-> "none", api_key |-> NoApiKey, token |-> Absent,
              required |-> "none", status |-> 0, user |-> Absent, key |-> 0,
              touched |-> 0, awaited |-> FALSE, match |-> 0,
              record |-> NoKey, owner_active |-> FALSE, wrote |-> FALSE,
              commit_ok |-> TRUE, active_rows |-> 0, target |-> 0,
              replaced |-> NoApiKey, items |-> {}]

\* a company and a contact: absent, created, updated or (soft) deleted
EntityStates == {"absent", "created", "updated", "deleted"}

\* an empty database with its users, and no request handled yet
AuthInit ==
    /\ keys = [k \in KeyIds |-> NoKey]
    /\ users = [u \in Users |-> TRUE]
    /\ store = [company |-> "absent", contact |-> "absent"]
    /\ changes = 0
    /\ last = NoRequest

\* no request has passed a limiter yet
NoInbound == [status |-> 0]

EdgeInit ==
    /\ requests = <<>>
    /\ windows = [k \in {} |-> {}]
    /\ inbound = NoInbound

Init ==
    /\ clock = 0
    /\ events = 0
    /\ backendUp \in BOOLEAN
    /\ strategy = SelectMiddleware
    /\ redis = "None"
    /\ zset = {}
    /\ expireAt = NoTime
    /\ cache = None
    /\ cred \in Creds
    /\ keyRateLimit \in (IF HasApiKey THEN RateLimitValues ELSE {None})
    /\ req = [r \in Reqs |-> NewReq]
    /\ probeUp = backendUp
    /\ pastLimits = {keyRateLimit}
    /\ expected = {}
    /\ waited = 0
    /\ AuthInit
    /\ EdgeInit

\* dispatch lines 151-158: entry; startup() assigns self.redis before ping
Begin(r) ==
    /\ req[r].pc = "idle"
    /\ IF r = 1 THEN TRUE ELSE req[r - 1].pc # "idle"
    /\ Cardinality({o \in Reqs : InFlight(o)}) < MaxInFlight
    /\ LET q == [req[r] EXCEPT !.alone = \A o \in Reqs : ~InFlight(o)]
           others == [o \in Reqs |-> IF InFlight(o)
                                     THEN [req[o] EXCEPT !.alone = FALSE]
                                     ELSE req[o]]
       IN IF redis = "None"
          THEN /\ redis' = "client"
               /\ req' = [others EXCEPT ![r] = [q EXCEPT !.pc = "ping"]]
          ELSE /\ redis' = redis
               /\ req' = [others EXCEPT ![r] = AfterStartup(q, redis)]
    /\ UNCHANGED <<clock, events, backendUp, strategy, zset, expireAt, cache,
                   keyRateLimit, cred, probeUp, pastLimits, expected>>
    /\ UNCHANGED <<waited, authVars, edgeVars>>

\* startup lines 44-48: await ping; on failure self.redis = None
Ping(r) ==
    /\ req[r].pc = "ping"
    /\ redis' = IF backendUp THEN redis ELSE "None"
    /\ req' = [req EXCEPT ![r] = AfterStartup(req[r], redis')]
    /\ UNCHANGED <<clock, events, backendUp, strategy, zset, expireAt, cache,
                   keyRateLimit, cred, probeUp, pastLimits, expected>>
    /\ UNCHANGED <<waited, authVars, edgeVars>>

\* dispatch lines 166-172: cached rate limit of the API key, errors ignored
Get(r) ==
    /\ req[r].pc = "get"
    /\ LET rl == IF backendUp /\ cache # None THEN cache
                                              ELSE RATE_LIMIT_DEFAULT
           q == [req[r] EXCEPT !.lookup = IF backendUp THEN "ok" ELSE "failed"]
       IN req' = [req EXCEPT ![r] = EnterCheck(q, rl, redis)]
    /\ UNCHANGED <<clock, events, backendUp, strategy, redis, zset, expireAt,
                   cache, keyRateLimit, cred, probeUp, pastLimits, expected>>
    /\ UNCHANGED <<waited, authVars, edgeVars>>

\* a pipeline sent without MULTI/EXEC, whose commands reach the server in two
\* batches: prune and count first, insert and expire later
PipelineNotAtomic(r) ==
    /\ req[r].pc = "pipe"
    /\ IF ~backendUp
       THEN /\ req' = [req EXCEPT ![r] = Raise(req[r])]
            /\ UNCHANGED <<zset, expireAt, expected>>
       ELSE IF req[r].pstep = 0
       THEN LET pruned == Pruned(Live, req[r].now)
            IN /\ zset' = pruned
               /\ expireAt' = IF pruned = {} THEN NoTime ELSE expireAt
               /\ expected' = {q \in LiveExpected :
                                 req[q].now > req[r].now - Window}
               /\ req' = [req EXCEPT ![r] =
                            [@ EXCEPT !.current_count = Cardinality(pruned),
                                      !.pstep = 2]]
       ELSE LET ok == ~(req[r].current_count > req[r].rate_limit)
            IN /\ zset' = Live \cup {req[r].now}
               /\ expireAt' = clock + Window
               /\ expected' = LiveExpected \cup (IF ok THEN {r} ELSE {})
               /\ req' = [req EXCEPT ![r] =
                            [@ EXCEPT !.allowed = ok, !.checked = TRUE,
                                      !.pstep = 4,
                                      !.pc = IF ok THEN "zrange" ELSE "zrem"]]
    /\ UNCHANGED <<clock, events, backendUp, strategy, redis, cache,
                   keyRateLimit, cred, probeUp, pastLimits>>
    /\ UNCHANGED <<waited, authVars, edgeVars>>

\* check_rate_limit lines 111-129: pipeline() is a MULTI/EXEC transaction,
\* so ZREMRANGEBYSCORE, ZCARD, ZADD and EXPIRE are applied in one step
Pipeline(r) ==
    /\ req[r].pc = "pipe"
    /\ IF ~backendUp
       THEN /\ req' = [req EXCEPT ![r] = Raise(req[r])]
            /\ UNCHANGED <<zset, expireAt, expected>>
       ELSE LET pruned == Pruned(Live, req[r].now)
                count == Cardinality(pruned)
                ok == ~(count > req[r].rate_limit)
            IN /\ zset' = pruned \cup {req[r].now}
               /\ expireAt' = clock + Window
               /\ expected' = {q \in LiveExpected :
                                 req[q].now > req[r].now - Window}
                              \cup (IF ok THEN {r} ELSE {})
               /\ req' = [req EXCEPT ![r] =
                            [@ EXCEPT !.current_count = count,
                                      !.allowed = ok, !.checked = TRUE,
                                      !.pstep = 4,
                                      !.pc = IF ok THEN "zrange" ELSE "zrem"]]
    /\ UNCHANGED <<clock, events, backendUp, strategy, redis, cache,
                   keyRateLimit, cred, probeUp, pastLimits>>
    /\ UNCHANGED <<waited, authVars, edgeVars>>

\* check_rate_limit line 131: remove the entry just added (member str(now))
ZRem(r) ==
    /\ req[r].pc = "zrem"
    /\ IF redis = "None" \/ ~backendUp
       THEN /\ req' = [req EXCEPT ![r] = Raise(req[r])]
            /\ UNCHANGED <<zset, expireAt, expected>>
       ELSE /\ zset' = Live \ {req[r].now}
            /\ expireAt' = IF zset' = {} THEN NoTime ELSE expireAt
            /\ expected' = LiveExpected
            /\ req' = [req EXCEPT ![r] = [@ EXCEPT !.pc = "zrange"]]
    /\ UNCHANGED <<clock, events, backendUp, strategy, redis, cache,
                   keyRateLimit, cred, probeUp, pastLimits>>
    /\ UNCHANGED <<waited, authVars, edgeVars>>

\* dispatch without the raise of lines 179-191: a rejected request goes on
\* to call_next
ZRangeNoRaise(r) ==
    /\ req[r].pc = "zrange"
    /\ IF redis = "None" \/ ~backendUp
       THEN req' = [req EXCEPT ![r] = Raise(req[r])]
       ELSE LET reset == ResetTime(Live, req[r].now)
            IN req' = [req EXCEPT ![r] =
                       [@ EXCEPT !.remaining =
                                    IF req[r].allowed
                                    THEN req[r].rate_limit
                                           - req[r].current_count
                                    ELSE 0,
                                 !.reset_time = reset,
                                 !.pc = "call_next"]]
    /\ UNCHANGED <<clock, events, backendUp, strategy, redis, zset, expireAt,
                   cache, keyRateLimit, cred, probeUp, pastLimits, expected>>
    /\ UNCHANGED <<waited, authVars, edgeVars>>

\* check_rate_limit lines 134-149 and dispatch lines 179-191
ZRange(r) ==
    /\ req[r].pc = "zrange"
    /\ IF redis = "None" \/ ~backendUp
       THEN req' = [req EXCEPT ![r] = Raise(req[r])]
       ELSE LET reset == ResetTime(Live, req[r].now)
            IN IF req[r].allowed
               THEN req' = [req EXCEPT ![r] =
                       [@ EXCEPT !.remaining = req[r].rate_limit
                                                - req[r].current_count,
                                 !.reset_time = reset,
                                 !.pc = "call_next"]]
               ELSE req' = [req EXCEPT ![r] =
                       [@ EXCEPT !.remaining = 0,
                                 !.reset_time = reset,
                                 !.status = 429,
                                 !.retry_after = reset - int(clock),
                                 !.pc = "done"]]
    /\ UNCHANGED <<clock, events, backendUp, strategy, redis, zset, expireAt,
                   cache, keyRateLimit, cred, probeUp, pastLimits, expected>>
    /\ UNCHANGED <<waited, authVars, edgeVars>>

\* dispatch lines 193-201: the endpoint runs and the headers are added
CallNext(r) ==
    /\ req[r].pc = "call_next"
    /\ req' = [req EXCEPT ![r] = [@ EXCEPT !.served = TRUE, !.status = 200,
                                           !.pc = "done"]]
    /\ UNCHANGED <<clock, events, backendUp, strategy, redis, zset, expireAt,
                   cache, keyRateLimit, cred, probeUp, pastLimits, expected>>
    /\ UNCHANGED <<waited, authVars, edgeVars>>

\* the rate-limit headers of the response to a finished request: dispatch
\* lines 196-198 set the three X-RateLimit headers on the response that
\* call_next returned; the HTTPException of lines 185-191 carries Retry-After
\* alone; a response to an escaped exception carries none
ResponseHeaders(q) ==
    IF q.status = 200
    THEN [name \in {"X-RateLimit-Limit", "X-RateLimit-Remaining",
                    "X-RateLimit-Reset"} |->
            IF name = "X-RateLimit-Limit" THEN q.rate_limit
            ELSE IF name = "X-RateLimit-Remaining" THEN q.remaining
            ELSE q.reset_time]
    ELSE IF q.status = 429
    THEN [name \in {"Retry-After"} |-> q.retry_after]
    ELSE [name \in {} |-> 0]

\* time passes
Tick ==
    /\ events < MaxEvents
    /\ \E d \in TickSteps : clock' = clock + d
    /\ events' = events + 1
    /\ UNCHANGED <<backendUp, strategy, redis, zset, expireAt, cache,
                   keyRateLimit, cred, req, probeUp, pastLimits, expected>>
    /\ UNCHANGED <<waited, authVars, edgeVars>>

\* the Redis server becomes unreachable
BackendDown ==
    /\ backendUp
    /\ events < MaxEvents
    /\ backendUp' = FALSE
    /\ events' = events + 1
    /\ UNCHANGED <<clock, strategy, redis, zset, expireAt, cache,
                   keyRateLimit, cred, req, probeUp, pastLimits, expected>>
    /\ UNCHANGED <<waited, authVars, edgeVars>>

\* the Redis server becomes reachable again
BackendRecover ==
    /\ ~backendUp
    /\ events < MaxEvents
    /\ backendUp' = TRUE
    /\ events' = events + 1
    /\ UNCHANGED <<clock, strategy, redis, zset, expireAt, cache,
                   keyRateLimit, cred, req, probeUp, pastLimits, expected>>
    /\ UNCHANGED <<waited, authVars, edgeVars>>

\* update_api_key lines 220-223: the record's rate_limit is overwritten and
\* committed; nothing is written to Redis
UpdateKey ==
    /\ HasApiKey
    /\ events < MaxEvents
    /\ \E v \in RateLimitValues \ {keyRateLimit} : keyRateLimit' = v
    /\ events' = events + 1
    /\ pastLimits' = pastLimits \cup {keyRateLimit'}
    /\ UNCHANGED <<clock, backendUp, strategy, redis, zset, expireAt,
                   cache, cred, req, probeUp, expected>>
    /\ UNCHANGED <<waited, authVars, edgeVars>>

Next ==
    \/ \E r \in Reqs : Begin(r)
    \/ \E r \in Reqs : Ping(r)
    \/ \E r \in Reqs : Get(r)
    \/ \E r \in Reqs : Pipeline(r)
    \/ \E r \in Reqs : ZRem(r)
    \/ \E r \in Reqs : ZRange(r)
    \/ \E r \in Reqs : CallNext(r)
    \/ Tick
    \/ BackendDown
    \/ BackendRecover
    \/ UpdateKey

Spec == Init /\ [][Next]_vars

\* ------------------------------------- SimpleRateLimitMiddleware (204-280)
\* hashlib.sha256(token).hexdigest()[:16]
token_hash(token) == <<"sha256", token>>

\* dispatch lines 220-230: the key of the caller in self.requests
SimpleKey ==
    CASE cred = "apikey" -> <<"api", 1>>
      [] cred = "bearer" -> <<"jwt", token_hash("u1")>>
      [] cred = "anon" -> <<"ip", "10.0.0.1">>

\* self.requests[key], the empty list when the key is not in the dict
Entries == IF SimpleKey \in DOMAIN requests THEN requests[SimpleKey] ELSE <<>>

\* lines 237-241: the entries with ts > window_start
Recent(entries, now) ==
    LET InWindow(ts) == ts > now - Window
    IN SelectSeq(entries, InWindow)

\* min(ts for ts, _ in self.requests[key]), line 249
Oldest(entries, now) ==
    IF entries = <<>> THEN now
    ELSE Min({entries[i] : i \in DOMAIN entries})

\* a request may enter dispatch: requests arrive in order, MaxInFlight at once
Arrives(r) ==
    /\ req[r].pc = "idle"
    /\ IF r = 1 THEN TRUE ELSE req[r - 1].pc # "idle"
    /\ Cardinality({o \in Reqs : InFlight(o)}) < MaxInFlight

\* the prune, the count and the insert of lines 234-266 as three operations
\* that other requests may run between (pstep: 2 after the count)
SimpleDispatchNotAtomic(r) ==
    /\ strategy = "SimpleRateLimitMiddleware"
    /\ \/ /\ Arrives(r)
          /\ LET kept == Recent(Entries, clock)
             IN /\ requests' = (SimpleKey :> kept)
                /\ req' = [req EXCEPT ![r] =
                             [@ EXCEPT !.now = clock,
                                       !.rate_limit = RATE_LIMIT_DEFAULT,
                                       !.current_count = Len(kept),
                                       !.pstep = 2, !.pc = "insert"]]
       \/ /\ req[r].pc = "insert"
          /\ IF req[r].current_count >= RATE_LIMIT_DEFAULT
             THEN LET reset == int(Oldest(Entries, req[r].now) + Window)
                  IN /\ requests' = requests
                     /\ req' = [req EXCEPT ![r] =
                                  [@ EXCEPT !.checked = TRUE,
                                            !.allowed = FALSE,
                                            !.remaining = 0,
                                            !.reset_time = reset,
                                            !.retry_after =
                                                reset - int(req[r].now),
                                            !.status = 429, !.pstep = 3,
                                            !.pc = "done"]]
             ELSE /\ requests' = (SimpleKey :> Append(Entries, req[r].now))
                  /\ req' = [req EXCEPT ![r] =
                               [@ EXCEPT !.checked = TRUE, !.allowed = TRUE,
                                         !.pstep = 3, !.pc = "call_next"]]
    /\ UNCHANGED <<clock, events, backendUp, strategy, redis, zset, expireAt,
                   cache, keyRateLimit, cred, probeUp, pastLimits, expected,
                   windows, inbound>>
    /\ UNCHANGED <<waited, authVars>>

\* dispatch lines 216-266, up to the await of call_next: nothing is awaited
\* between the read of time.time() and the append, so the event loop runs
\* no other request in between
SimpleDispatch(r) ==
    /\ strategy = "SimpleRateLimitMiddleware"
    /\ Arrives(r)
    /\ LET now == clock
           kept == Recent(Entries, now)
           total_count == Len(kept)
       IN IF total_count >= RATE_LIMIT_DEFAULT
          THEN LET reset == int(Oldest(kept, now) + Window)
               IN /\ requests' = (SimpleKey :> kept)
                  /\ req' = [req EXCEPT ![r] =
                               [@ EXCEPT !.now = now,
                                         !.rate_limit = RATE_LIMIT_DEFAULT,
                                         !.current_count = total_count,
                                         !.checked = TRUE, !.allowed = FALSE,
                                         !.remaining = 0,
                                         !.reset_time = reset,
                                         !.retry_after = reset - int(now),
                                         !.status = 429, !.pstep = 3,
                                         !.pc = "done"]]
          ELSE /\ requests' = (SimpleKey :> Append(kept, now))
               /\ req' = [req EXCEPT ![r] =
                            [@ EXCEPT !.now = now,
                                      !.rate_limit = RATE_LIMIT_DEFAULT,
                                      !.current_count = total_count,
                                      !.checked = TRUE, !.allowed = TRUE,
                                      !.pstep = 3, !.pc = "call_next"]]
    /\ UNCHANGED <<clock, events, backendUp, strategy, redis, zset, expireAt,
                   cache, keyRateLimit, cred, probeUp, pastLimits, expected,
                   windows, inbound>>
    /\ UNCHANGED <<waited, authVars>>

\* dispatch lines 268-280: the endpoint has run; the headers are computed
\* from the list as it is now
SimpleCallNext(r) ==
    /\ strategy = "SimpleRateLimitMiddleware"
    /\ req[r].pc = "call_next"
    /\ LET new_total == Len(Entries)
           left == RATE_LIMIT_DEFAULT - new_total
       IN req' = [req EXCEPT ![r] =
                    [@ EXCEPT !.served = TRUE, !.status = 200,
                              !.remaining = IF left > 0 THEN left ELSE 0,
                              !.reset_time = int(req[r].now + Window),
                              !.pc = "done"]]
    /\ UNCHANGED <<clock, events, backendUp, strategy, redis, zset, expireAt,
                   cache, keyRateLimit, cred, probeUp, pastLimits, expected>>
    /\ UNCHANGED <<waited, authVars, edgeVars>>

\* either middleware class installed in front of the endpoints (main.py 44
\* and 50), for an anonymous caller and a reachable Redis
MiddlewareInit ==
    /\ clock = 0
    /\ events = 0
    /\ backendUp = TRUE
    /\ strategy \in {"RateLimitMiddleware", "SimpleRateLimitMiddleware"}
    /\ redis = "None"
    /\ zset = {}
    /\ expireAt = NoTime
    /\ cache = None
    /\ cred = "anon"
    /\ keyRateLimit = None
    /\ req = [r \in Reqs |-> NewReq]
    /\ probeUp = TRUE
    /\ pastLimits = {None}
    /\ expected = {}
    /\ waited = 0
    /\ AuthInit
    /\ EdgeInit

RedisDispatch ==
    /\ strategy = "RateLimitMiddleware"
    /\ \/ \E r \in Reqs : Begin(r)
       \/ \E r \in Reqs : Ping(r)
       \/ \E r \in Reqs : Pipeline(r)
       \/ \E r \in Reqs : ZRem(r)
       \/ \E r \in Reqs : ZRange(r)
       \/ \E r \in Reqs : CallNext(r)

MiddlewareNext ==
    \/ RedisDispatch
    \/ \E r \in Reqs : SimpleDispatch(r)
    \/ \E r \in Reqs : SimpleCallNext(r)
    \/ Tick

MiddlewareSpec == MiddlewareInit /\ [][MiddlewareNext]_vars

\* ------------------------------------------- a client that obeys Retry-After
Max(s) == CHOOSE m \in s : \A n \in s : m >= n

\* the windows earlier requests of the identity can have left behind: their
\* timestamps, at most rate_limit + 1 of them (a sequential request that finds
\* more than rate_limit entries is rejected and its entry removed)
PriorWindows(now) ==
    {s \in SUBSET (0..now) : Cardinality(s) <= RATE_LIMIT_DEFAULT + 1}

\* a running process, connected to a reachable backend, whose sorted set holds
\* the entries of earlier admitted requests; EXPIRE was last set by the latest
RetryInit ==
    /\ clock \in 0..MaxStart
    /\ events = 0
    /\ backendUp = TRUE
    /\ strategy = SelectMiddleware
    /\ redis = "client"
    /\ zset \in PriorWindows(clock)
    /\ expireAt = IF zset = {} THEN NoTime ELSE Max(zset) + Window
    /\ cache = None
    /\ cred \in Creds
    /\ keyRateLimit \in (IF HasApiKey THEN RateLimitValues ELSE {None})
    /\ req = [r \in Reqs |-> NewReq]
    /\ probeUp = TRUE
    /\ pastLimits = {keyRateLimit}
    /\ expected = {}
    /\ waited = 0
    /\ AuthInit
    /\ EdgeInit

\* the client sends its next request after the answer to the previous one
SeqBegin(r) ==
    /\ \A o \in Reqs : ~InFlight(o)
    /\ Begin(r)

\* the client got a 429 and sleeps for the Retry-After of dispatch line 189
\* before it sends its next request
WaitRetryAfter ==
    /\ waited = 0
    /\ \E r \in Reqs :
          /\ r + 1 \in Reqs
          /\ req[r].pc = "done" /\ req[r].status = 429
          /\ req[r + 1].pc = "idle"
          /\ req[r].retry_after > 0
          /\ clock' = clock + req[r].retry_after * TicksPerSecond
          /\ waited' = r
    /\ UNCHANGED <<events, backendUp, strategy, redis, zset, expireAt, cache,
                   keyRateLimit, cred, req, probeUp, pastLimits, expected>>
    /\ UNCHANGED <<authVars, edgeVars>>

RetryNext ==
    \/ \E r \in Reqs : SeqBegin(r)
    \/ \E r \in Reqs : Get(r)
    \/ \E r \in Reqs : Pipeline(r)
    \/ \E r \in Reqs : ZRem(r)
    \/ \E r \in Reqs : ZRange(r)
    \/ \E r \in Reqs : CallNext(r)
    \/ WaitRetryAfter

RetrySpec == RetryInit /\ [][RetryNext]_vars

\* ------------------------------------------------ app/core/api_key.py
\* api_key[:12]
key_prefix_of(api_key) == api_key[1]

\* bcrypt.hashpw(full_key, gensalt()): one-way, so kept as a tagged value
hashpw(full_key) == <<"bcrypt", full_key>>

\* verify_api_key, lines 43-53: bcrypt.checkpw
verify_api_key(plain_key, key_hash) == key_hash = hashpw(plain_key)

\* has_access_level, lines 56-73
level_hierarchy(level) ==
    CASE level = "read" -> 1
      [] level = "write" -> 2
      [] level = "admin" -> 3

\* the comparison made strict: a key would have to outrank the requirement
has_access_level_strict(key_level, required_level) ==
    level_hierarchy(key_level) > level_hierarchy(required_level)

has_access_level(key_level, required_level) ==
    level_hierarchy(key_level) >= level_hierarchy(required_level)

\* get_access_level, lines 127-139
get_access_level(level_str) ==
    IF level_str \in Levels THEN level_str ELSE "read"

\* what an authentication step hands back: a result ("ok"), None ("none") or
\* an exception that is not an HTTPException ("raise")
AuthResult(kind, user, key, touched, awaited) ==
    [kind |-> kind, user |-> user, key |-> key, touched |-> touched,
     awaited |-> awaited]

\* validate_api_key, lines 76-124.  commit_ok: the commit of line 122 succeeds
validate_api_key(api_key, commit_ok) ==
    LET prefix == key_prefix_of(api_key)
        rows == {k \in KeyIds : /\ keys[k].exists
                                /\ keys[k].key_prefix = prefix
                                /\ keys[k].is_active}
    IN IF Cardinality(rows) > 1
       THEN \* scalar_one_or_none raises MultipleResultsFound
            AuthResult("raise", Absent, 0, 0, FALSE)
       ELSE IF rows = {}
       THEN AuthResult("none", Absent, 0, 0, FALSE)
       ELSE LET k == CHOOSE k \in rows : TRUE
            IN IF ~verify_api_key(api_key, keys[k].key_hash)
               THEN AuthResult("none", Absent, 0, 0, FALSE)
               ELSE IF ~users[keys[k].user_id]
               THEN AuthResult("none", Absent, 0, 0, FALSE)
               ELSE IF ~commit_ok
               THEN AuthResult("raise", Absent, 0, 0, TRUE)
               ELSE AuthResult("ok", keys[k].user_id, k, k, TRUE)

\* ------------------------------------------------------- app/api/deps.py
\* get_current_user_jwt, lines 29-53
get_current_user_jwt(token) ==
    IF token = "bad" THEN Absent
    ELSE IF ~users[token] THEN Absent
    ELSE token

\* credentials_exception, lines 93-97: detail and WWW-Authenticate of the 401
credentials_exception == <<"Invalid authentication credentials", "Bearer">>

\* get_current_auth with its dependencies, lines 16-17 and 77-115: the status
\* is 0 when the caller is authenticated
get_current_auth(token, api_key, commit_ok) ==
    IF token = Absent
    THEN \* oauth2_scheme (auto_error) raises before the function is entered
         [status |-> 401, user |-> Absent, key |-> 0, touched |-> 0,
          awaited |-> FALSE, detail |-> "Not authenticated",
          www_authenticate |-> "Bearer"]
    ELSE IF api_key # NoApiKey
    THEN LET result == validate_api_key(api_key, commit_ok)
         IN [status |-> CASE result.kind = "ok" -> 0
                          [] result.kind = "none" -> 401
                          [] result.kind = "raise" -> 500,
             user |-> result.user, key |-> result.key,
             touched |-> result.touched, awaited |-> result.awaited,
             detail |-> CASE result.kind = "ok" -> ""
                          [] result.kind = "none" -> credentials_exception[1]
                          [] result.kind = "raise" -> "Internal Server Error",
             www_authenticate |-> IF result.kind = "none"
                                  THEN credentials_exception[2] ELSE ""]
    ELSE LET user == get_current_user_jwt(token)
         IN [status |-> IF user # Absent THEN 0 ELSE 401,
             user |-> user, key |-> 0, touched |-> 0, awaited |-> FALSE,
             detail |-> IF user # Absent THEN ""
                        ELSE credentials_exception[1],
             www_authenticate |-> IF user # Absent THEN ""
                                  ELSE credentials_exception[2]]

\* the guard with a bearer caller held to the write level instead of let
\* through
check_access_bearer_as_write(level, auth) ==
    IF auth.key = 0
    THEN IF has_access_level("write", level) THEN 0 ELSE 403
    ELSE IF ~has_access_level(get_access_level(keys[auth.key].access_level),
                              level)
    THEN 403
    ELSE 0

\* require_access(level).check_access, lines 134-153: 0 when access is given
check_access(level, auth) ==
    IF auth.key = 0 THEN 0
    ELSE IF ~has_access_level(get_access_level(keys[auth.key].access_level),
                              level)
    THEN 403
    ELSE 0

\* the dependencies of an endpoint: RequireRead, RequireWrite, RequireAdmin
\* (lines 163-166), or none at all
Resolve(required, token, api_key, commit_ok) ==
    IF required = "none"
    THEN [status |-> 0, user |-> Absent, key |-> 0, touched |-> 0,
          awaited |-> FALSE]
    ELSE LET auth == get_current_auth(token, api_key, commit_ok)
         IN IF auth.status # 0 THEN auth
            ELSE [auth EXCEPT !.status = check_access(required, auth)]

\* the api_keys row whose hash the presented key verifies against, if any
Matching(api_key) ==
    {k \in KeyIds : keys[k].exists /\ verify_api_key(api_key, keys[k].key_hash)}

\* the presented key is the secret of an active row with an active owner
IsValid(api_key) ==
    \E k \in Matching(api_key) : keys[k].is_active /\ users[keys[k].user_id]

\* the active rows that carry the first 12 characters of the presented key
ActiveRows(api_key) ==
    {k \in KeyIds : /\ keys[k].exists
                    /\ keys[k].key_prefix = key_prefix_of(api_key)
                    /\ keys[k].is_active}

\* the request as the router saw it and the answer it gave; record,
\* owner_active and active_rows describe the rows of the presented key when
\* the request ran, wrote tells whether the endpoint body made its change
Answer(op, required, h, g, status, wrote) ==
    LET m == IF h[2] = NoApiKey THEN {} ELSE Matching(h[2])
        k == IF m = {} THEN 0 ELSE CHOOSE k \in m : TRUE
    IN [op |-> op, api_key |-> h[2], token |-> h[1], required |-> required,
        status |-> IF g.status # 0 THEN g.status ELSE status,
        user |-> g.user, key |-> g.key, touched |-> g.touched,
        awaited |-> g.awaited, match |-> k,
        record |-> IF k = 0 THEN NoKey ELSE keys[k],
        owner_active |-> IF k = 0 THEN FALSE ELSE users[keys[k].user_id],
        wrote |-> wrote, commit_ok |-> h[3],
        active_rows |-> IF h[2] = NoApiKey THEN 0
                        ELSE Cardinality(ActiveRows(h[2])),
        target |-> 0, replaced |-> NoApiKey, items |-> {}]

\* Authorization and X-API-Key of a request, and whether the commit of
\* validate_api_key succeeds for it (a choice only where the commit is reached)
ApiKeys ==
    {<<p, 0>> : p \in Prefixes}
      \cup {keys[k].key_hash[2] : k \in {i \in KeyIds : keys[i].exists}}

Headers ==
    {h \in (Tokens \cup {Absent}) \X (ApiKeys \cup {NoApiKey}) \X BOOLEAN :
        ~h[3] => /\ h[1] # Absent
                 /\ h[2] # NoApiKey
                 /\ validate_api_key(h[2], TRUE).kind = "ok"}

Guard(required, h) == Resolve(required, h[1], h[2], h[3])

\* the router takes the next request when the previous one is answered
Idle == last = NoRequest

\* the response leaves the server
Respond ==
    /\ ~Idle
    /\ last' = NoRequest
    /\ UNCHANGED <<keys, users, store, changes, waited, rateVars, edgeVars>>

\* ------------------------ app/api/v1/endpoints/companies.py, contacts.py
\* an endpoint that writes one table: it moves the entity from a state in
\* from to the state to, or answers fail_status
EntityWrite(op, required, table, from, to, ok_status, fail_status) ==
    /\ Idle
    /\ changes < MaxChanges
    /\ \E h \in Headers :
         LET g == Guard(required, h)
             found == store[table] \in from
             done == g.status = 0 /\ found
         IN /\ last' = Answer(op, required, h, g,
                              IF found THEN ok_status ELSE fail_status, done)
            /\ store' = IF done THEN [store EXCEPT ![table] = to] ELSE store
            /\ changes' = IF done THEN changes + 1 ELSE changes
    /\ UNCHANGED <<keys, users, waited, rateVars, edgeVars>>

\* create_company (17-49), update_company (260-306), delete_company (309-332):
\* db is their only dependency
CreateCompany ==
    EntityWrite("create_company", "none", "company", {"absent", "deleted"},
                "created", 201, 409)

UpdateCompany ==
    EntityWrite("update_company", "none", "company", {"created", "updated"},
                "updated", 200, 404)

DeleteCompany ==
    EntityWrite("delete_company", "none", "company", {"created", "updated"},
                "deleted", 204, 404)

\* list_companies (52-130): db is its only dependency
ListCompanies ==
    /\ Idle
    /\ \E h \in Headers :
         last' = Answer("list_companies", "none", h, Guard("none", h), 200,
                        FALSE)
    /\ UNCHANGED <<keys, users, store, changes, waited, rateVars, edgeVars>>

\* create_contact (24-67), update_contact (345-407), delete_contact (410-431):
\* RequireWrite
CreateContact ==
    EntityWrite("create_contact", "write", "contact", {"absent", "deleted"},
                "created", 201, 404)

UpdateContact ==
    EntityWrite("update_contact", "write", "contact", {"created", "updated"},
                "updated", 200, 404)

DeleteContact ==
    EntityWrite("delete_contact", "write", "contact", {"created", "updated"},
                "deleted", 204, 404)

\* list_contacts (70-73): RequireRead
ListContacts ==
    /\ Idle
    /\ \E h \in Headers :
         last' = Answer("list_contacts", "read", h, Guard("read", h), 200,
                        FALSE)
    /\ UNCHANGED <<keys, users, store, changes, waited, rateVars, edgeVars>>

\* ----------------------------------- app/api/v1/endpoints/api_keys.py
FreeIds == {k \in KeyIds : ~keys[k].exists}

\* secrets handed out so far: generate_api_key does not repeat one
Issued == {keys[k].key_hash[2][2] : k \in {i \in KeyIds : keys[i].exists}}

NextSecret == IF Issued = {} THEN 1 ELSE Max(Issued) + 1

\* generate_api_key, lines 20-40, for a secret whose first 12 characters are
\* prefix: (full_key, prefix, hash)
generate_api_key(prefix) ==
    LET full_key == <<prefix, NextSecret>>
    IN <<full_key, key_prefix_of(full_key), hashpw(full_key)>>

\* the row looked up by id alone, whoever owns it
OwnedByAnyone(id, g) == keys[id].exists

\* the row of a management request: id and owner must match (404 otherwise)
Owned(id, g) == keys[id].exists /\ keys[id].user_id = g.user

\* the answer of an endpoint addressed to /{api_key_id}
Targets(answer, id) == [answer EXCEPT !.target = id]

\* a management endpoint that was refused by RequireAdmin, or found no row
Refused(op, id, h, g, status) ==
    /\ last' = Targets(Answer(op, "admin", h, g, status, FALSE), id)
    /\ UNCHANGED <<keys, changes>>

\* create_api_key, lines 55-91
CreateApiKey ==
    /\ Idle
    /\ changes < MaxChanges
    /\ FreeIds # {}
    /\ NextSecret <= MaxSecrets
    /\ \E h \in Headers :
         LET g == Guard("admin", h)
             id == CHOOSE k \in FreeIds : \A o \in FreeIds : k <= o
         IN IF g.status # 0
            THEN Refused("create_api_key", 0, h, g, 0)
            ELSE \E prefix \in Prefixes, level \in Levels :
                   LET new == generate_api_key(prefix)
                       \* APIKeyCreate.rate_limit left to its default
                       rate_limit == RATE_LIMIT_DEFAULT
                   IN /\ last' = Answer("create_api_key", "admin", h, g, 201,
                                        TRUE)
                      /\ keys' = [keys EXCEPT ![id] =
                               [exists |-> TRUE, key_prefix |-> new[2],
                                key_hash |-> new[3], access_level |-> level,
                                rate_limit |-> rate_limit,
                                user_id |-> g.user, is_active |-> TRUE]]
                      /\ changes' = changes + 1
    /\ UNCHANGED <<users, store, waited, rateVars, edgeVars>>

\* list_api_keys, lines 109-138
ListApiKeys ==
    /\ Idle
    /\ \E h \in Headers :
         LET g == Guard("admin", h)
             answer == Answer("list_api_keys", "admin", h, g, 200, FALSE)
         IN \E is_active \in {"true", "false", Absent} :
              last' = [answer EXCEPT !.items =
                         IF g.status # 0 THEN {}
                         ELSE {k \in KeyIds :
                                 /\ keys[k].exists
                                 /\ keys[k].user_id = g.user
                                 /\ is_active # Absent =>
                                      keys[k].is_active
                                        = (is_active = "true")}]
    /\ UNCHANGED <<keys, users, store, changes, waited, rateVars, edgeVars>>

\* get_api_key, lines 153-173
GetApiKey ==
    /\ Idle
    /\ \E h \in Headers, id \in KeyIds :
         LET g == Guard("admin", h)
         IN last' = Targets(Answer("get_api_key", "admin", h, g,
                                   IF Owned(id, g) THEN 200 ELSE 404,
                                   FALSE), id)
    /\ UNCHANGED <<keys, users, store, changes, waited, rateVars, edgeVars>>

\* APIKeyUpdate: the fields a PATCH may carry (name is not modelled)
UpdateData ==
    [access_level : Levels \cup {Absent},
     rate_limit : RateLimitValues \cup {None},
     is_active : {"true", "false", Absent}]

\* update_api_key, lines 194-228
UpdateApiKey ==
    /\ Idle
    /\ changes < MaxChanges
    /\ \E h \in Headers, id \in KeyIds :
         LET g == Guard("admin", h)
             row == keys[id]
         IN IF g.status # 0 \/ ~Owned(id, g)
            THEN Refused("update_api_key", id, h, g, 404)
            ELSE \E data \in UpdateData :
                   /\ last' = Targets(Answer("update_api_key", "admin", h,
                                              g, 200, TRUE), id)
                   /\ keys' = [keys EXCEPT ![id] =
                               [row EXCEPT
                                  !.access_level =
                                     IF data.access_level # Absent
                                     THEN data.access_level ELSE @,
                                  !.rate_limit =
                                     IF data.rate_limit # None
                                     THEN data.rate_limit ELSE @,
                                  !.is_active =
                                     IF data.is_active # Absent
                                     THEN data.is_active = "true" ELSE @]]
                   /\ changes' = changes + 1
    /\ UNCHANGED <<users, store, waited, rateVars, edgeVars>>

\* delete_api_key, lines 244-266: soft delete
DeleteApiKey ==
    /\ Idle
    /\ changes < MaxChanges
    /\ \E h \in Headers, id \in KeyIds :
         LET g == Guard("admin", h)
         IN IF g.status # 0 \/ ~Owned(id, g)
            THEN Refused("delete_api_key", id, h, g, 404)
            ELSE /\ last' = Targets(Answer("delete_api_key", "admin", h,
                                            g, 204, TRUE), id)
                 /\ keys' = [keys EXCEPT ![id] =
                               [@ EXCEPT !.is_active = FALSE]]
                 /\ changes' = changes + 1
    /\ UNCHANGED <<users, store, waited, rateVars, edgeVars>>

\* regenerate_api_key, lines 284-326
RegenerateApiKey ==
    /\ Idle
    /\ changes < MaxChanges
    /\ NextSecret <= MaxSecrets
    /\ \E h \in Headers, id \in KeyIds :
         LET g == Guard("admin", h)
         IN IF g.status # 0 \/ ~Owned(id, g)
            THEN Refused("regenerate_api_key", id, h, g, 404)
            ELSE \E prefix \in Prefixes :
                   LET new == generate_api_key(prefix)
                   IN /\ last' = [Targets(Answer("regenerate_api_key",
                                                  "admin", h, g, 200, TRUE),
                                           id)
                                     EXCEPT !.replaced =
                                              keys[id].key_hash[2]]
                      /\ keys' = [keys EXCEPT ![id] =
                               [@ EXCEPT !.key_prefix = new[2],
                                         !.key_hash = new[3],
                                         !.is_active = TRUE]]
                      /\ changes' = changes + 1
    /\ UNCHANGED <<users, store, waited, rateVars, edgeVars>>

\* app/models/user.py line 25: a user is deactivated or reactivated in the
\* users table (no endpoint of the repository does it)
SetUserActive ==
    /\ Idle
    /\ changes < MaxChanges
    /\ \E u \in Users : users' = [users EXCEPT ![u] = ~@]
    /\ changes' = changes + 1
    /\ UNCHANGED <<keys, store, last, waited, rateVars, edgeVars>>

\* the rate limiter at rest while the router is examined
RateQuiet ==
    /\ clock = 0
    /\ events = 0
    /\ backendUp = TRUE
    /\ strategy = SelectMiddleware
    /\ redis = "None"
    /\ zset = {}
    /\ expireAt = NoTime
    /\ cache = None
    /\ cred = "anon"
    /\ keyRateLimit = None
    /\ req = [r \in Reqs |-> NewReq]
    /\ probeUp = TRUE
    /\ pastLimits = {None}
    /\ expected = {}
    /\ waited = 0

AuthSpecInit == RateQuiet /\ AuthInit /\ EdgeInit

AuthNext ==
    \/ CreateCompany
    \/ UpdateCompany
    \/ DeleteCompany
    \/ ListCompanies
    \/ CreateContact
    \/ UpdateContact
    \/ DeleteContact
    \/ ListContacts
    \/ CreateApiKey
    \/ ListApiKeys
    \/ GetApiKey
    \/ UpdateApiKey
    \/ DeleteApiKey
    \/ RegenerateApiKey
    \/ SetUserActive
    \/ Respond

AuthSpec == AuthSpecInit /\ [][AuthNext]_vars

\* ------------------------------------------------ keys of inactive owners
\* app/models/user.py line 25: an active user is deactivated in the users
\* table (out of band: no endpoint of the repository does it)
DeactivateUser ==
    /\ Idle
    /\ \E u \in Users : users[u] /\ users' = [users EXCEPT ![u] = FALSE]
    /\ UNCHANGED <<keys, store, changes, last, waited, rateVars, edgeVars>>

\* keys are created and presented while their owners are deactivated
OwnerNext ==
    \/ CreateApiKey
    \/ ListContacts
    \/ DeactivateUser
    \/ Respond

OwnerSpec == AuthSpecInit /\ [][OwnerNext]_vars

\* ------------------------------------- the limiter in front of the router
\* strings are kept as the sequence of their parts between colons, so that
\* f"ratelimit:{key_id}" is the concatenation the code performs

\* the direct peer of the connection (request.client.host)
Hosts == {"10.0.0.1"}

\* first hop of X-Forwarded-For, a value the caller chooses freely: an
\* address, or text shaped like the key_id of another kind of caller
ForwardedValues ==
    {<<"203.0.113.7">>}
      \cup {<<"apikey", p>> : p \in Prefixes}
      \cup {<<"jwt", token_hash(t)>> : t \in Users}

\* no X-Forwarded-For header
NoForwarded == <<>>

\* the headers and the peer of an inbound request
RequestInputs ==
    [api_key : ApiKeys \cup {NoApiKey}, token : Tokens \cup {Absent},
     forwarded : ForwardedValues \cup {NoForwarded}, host : Hosts]

\* get_rate_limit_key, lines 50-85: the redis_key
get_rate_limit_key(request) ==
    IF request.api_key # NoApiKey
    THEN <<"ratelimit", "apikey", key_prefix_of(request.api_key)>>
    ELSE LET key_id ==
               IF request.token # Absent
               THEN <<"jwt", token_hash(request.token)>>
               ELSE IF request.forwarded # NoForwarded
               THEN request.forwarded
               ELSE <<"ip">> \o <<request.host>>
         IN <<"ratelimit">> \o key_id

\* the identity the limiter takes the request for: the variant is the branch
\* of get_rate_limit_key, the discriminator what that branch keys on
Identity(request) ==
    IF request.api_key # NoApiKey
    THEN <<"ApiKeyIdentity", <<key_prefix_of(request.api_key)>>>>
    ELSE IF request.token # Absent
    THEN <<"BearerIdentity", <<token_hash(request.token)>>>>
    ELSE IF request.forwarded # NoForwarded
    THEN <<"AnonymousIdentity", request.forwarded>>
    ELSE <<"AnonymousIdentity", <<request.host>>>>

\* the redis keys of the callers that authenticate: the windows of the
\* authenticated identities
AuthenticatedKeys ==
    {get_rate_limit_key(i) :
       i \in {j \in RequestInputs :
                get_current_auth(j.token, j.api_key, TRUE).status = 0}}

\* the sorted set stored under redis_key (a missing key is an empty set)
WindowOf(redis_key) ==
    IF redis_key \in DOMAIN windows THEN windows[redis_key] ELSE {}

\* a running process connected to a reachable backend, an empty database
PipelineInit ==
    /\ clock = 0
    /\ events = 0
    /\ backendUp = TRUE
    /\ strategy = SelectMiddleware
    /\ redis = "client"
    /\ zset = {}
    /\ expireAt = NoTime
    /\ cache = None
    /\ cred = "anon"
    /\ keyRateLimit = None
    /\ req = [r \in Reqs |-> NewReq]
    /\ probeUp = TRUE
    /\ pastLimits = {None}
    /\ expected = {}
    /\ waited = 0
    /\ AuthInit
    /\ EdgeInit

\* RateLimitMiddleware.dispatch (151-201) around GET /api/v1/contacts/
\* (list_contacts, RequireRead), for requests that arrive one per tick and one
\* after the other: check_rate_limit on the sorted set of the request's
\* redis_key at the default rate (nothing writes apikey:config:<prefix>), then
\* call_next, where the dependencies of the endpoint authenticate the caller.
\* EXPIRE does not matter within the ticks looked at.
Inbound ==
    /\ Idle
    /\ clock < MaxInbound
    /\ \E h \in Headers, f \in ForwardedValues \cup {NoForwarded},
          host \in Hosts :
         \* X-Forwarded-For is a choice only where it is read
         /\ f # NoForwarded => h[1] = Absent /\ h[2] = NoApiKey
         /\ LET request == [api_key |-> h[2], token |-> h[1], forwarded |-> f,
                            host |-> host]
                redis_key == get_rate_limit_key(request)
                now == clock
                pruned == Pruned(WindowOf(redis_key), now)
                current_count == Cardinality(pruned)
                allowed == ~(current_count > RATE_LIMIT_DEFAULT)
                after == IF allowed THEN pruned \cup {now}
                                    ELSE (pruned \cup {now}) \ {now}
                answer == Answer("list_contacts", "read", h, Guard("read", h),
                                 200, FALSE)
            IN /\ windows' = [k \in DOMAIN windows \cup {redis_key} |->
                                IF k = redis_key THEN after ELSE windows[k]]
               /\ last' = IF allowed THEN answer ELSE last
               /\ inbound' = [status |-> IF allowed THEN answer.status ELSE 429,
                              request |-> request, redis_key |-> redis_key,
                              allowed |-> allowed,
                              valid_key |-> IsValid(h[2]),
                              of_authenticated |->
                                  redis_key \in AuthenticatedKeys]
    /\ clock' = clock + 1
    /\ UNCHANGED <<events, backendUp, strategy, redis, zset, expireAt, cache,
                   keyRateLimit, cred, req, probeUp, pastLimits, expected>>
    /\ UNCHANGED <<keys, users, store, changes, waited, requests>>

PipelineNext ==
    \/ Inbound
    \/ CreateApiKey
    \/ Respond

PipelineSpec == PipelineInit /\ [][PipelineNext]_vars

\* ------------------------------------------------------------- properties
Done(r) == req[r].pc = "done"

\* the request went through the backend check and got its answer from it
Decided(r) == Done(r) /\ req[r].checked /\ req[r].status \in {200, 429}

Admitted(r) == Decided(r) /\ req[r].status = 200

Rejected(r) == Decided(r) /\ req[r].status = 429

\* requests 1..r ran one after another at increasing clock readings, each
\* decided by the backend, all inside one window
Sequential(r) ==
    /\ \A o \in 1..r : Decided(o) /\ req[o].alone
    /\ \A o \in 2..r : req[o - 1].now < req[o].now
    /\ req[r].now - req[1].now < Window

\* admitted requests before r whose timestamp lies in r's trailing window
AdmittedInWindow(r) ==
    {q \in Reqs : /\ q < r
                  /\ Admitted(q)
                  /\ req[q].now > req[r].now - Window
                  /\ req[q].now <= req[r].now}

\* C1: with quota Q, sequential checks in one fresh window: the first Q are
\* admitted and request Q+1 is rejected with 429
C1_SequentialQuota ==
    \A r \in Reqs :
        Sequential(r) =>
            /\ (r <= req[r].rate_limit => req[r].status = 200)
            /\ (r = req[r].rate_limit + 1 => req[r].status = 429)

\* C2: two concurrent checks of one identity (at different clock readings of
\* one window) with quota Q < 2 from an empty window: exactly Q are admitted
\* and exactly 2 - Q are rejected
C2_ConcurrentExact ==
    ( /\ Decided(1) /\ Decided(2)
      /\ ~req[1].alone /\ ~req[2].alone
      /\ req[1].now # req[2].now
      /\ req[2].now - req[1].now < Window
      /\ req[1].now - req[2].now < Window
      /\ req[3].pc = "idle"
      /\ req[1].rate_limit < 2 )
    => /\ Cardinality({r \in {1, 2} : Admitted(r)}) = req[1].rate_limit
       /\ Cardinality({r \in {1, 2} : Rejected(r)}) = 2 - req[1].rate_limit

\* C3: the four pipeline commands of a check take effect in one step: in no
\* state has a request applied some of them and not the others, so no other
\* command on the key can fall between them
C3_PipelineAtomic ==
    \A r \in Reqs :
        /\ req[r].pstep \in {0, 4}
        /\ (req[r].pstep = 4) = req[r].checked

\* two requests are in their checks at once: one has run its pipeline and
\* not yet returned, the other is about to run its own
C3_Witness ==
    \E r, q \in Reqs :
        /\ r # q
        /\ req[r].pc = "pipe"
        /\ req[q].pc \in {"zrem", "zrange"}
        /\ req[q].pstep = 4

\* C4: the admitted requests with timestamps in any trailing 60-second
\* interval never number more than Q + 1
C4_BoundedOverAdmission ==
    \A r \in Reqs :
        Admitted(r) =>
            Cardinality({q \in Reqs : /\ Admitted(q)
                                      /\ req[q].now > req[r].now - Window
                                      /\ req[q].now <= req[r].now})
              <= req[r].rate_limit + 1

\* C5: a backend failure during the check never surfaces as a 5xx response
C5_FailOpen ==
    \A r \in Reqs : Done(r) => req[r].status # 500

\* C6: when the backend is unreachable at start, and for as long as it stays
\* so, SimpleRateLimitMiddleware handles every request and enforces the quota
C6_FallbackSelected ==
    \A r \in Reqs :
        (Done(r) /\ ~probeUp /\ ~backendUp) =>
            /\ strategy = "SimpleRateLimitMiddleware"
            /\ Cardinality({q \in Reqs : Done(q) /\ req[q].status = 200})
                 <= RATE_LIMIT_DEFAULT

\* C7: the quota a request is checked against in the backend is, for an
\* API-key request whose quota lookup succeeded, a rate_limit value of the key
\* record (the current one or, for staleness, an earlier one); other requests
\* use settings.RATE_LIMIT_DEFAULT
C7_QuotaOfKey ==
    \A r \in Reqs :
        (req[r].pc = "pipe" \/ req[r].checked) =>
            IF HasApiKey
            THEN req[r].lookup = "ok" => req[r].rate_limit \in pastLimits
            ELSE req[r].rate_limit = RATE_LIMIT_DEFAULT

\* C8: the k-th admitted request of a sequential run in a fresh window reports
\* remaining = Q - k
C8_RemainingAfterThisOne ==
    \A r \in Reqs :
        (Sequential(r) /\ Admitted(r) /\ r <= req[r].rate_limit) =>
            req[r].remaining = req[r].rate_limit - r

C10_RejectedLeavesNoTrace ==
    \A r \in Reqs :
        Rejected(r) =>
            /\ \A q \in LiveExpected : req[q].now \in Live
            /\ (req[r].now \in Live =>
                  \E q \in Reqs \ {r} :
                      /\ req[q].now = req[r].now
                      /\ q \in LiveExpected \/ req[q].pc \in {"zrem", "zrange"})

\* C11: a 429 carries Retry-After r > 0, and the identity's next request, sent
\* r seconds after the rejection with nothing in between, is admitted
C11_RetryAfterAdmits ==
    \A r \in Reqs :
        Rejected(r) =>
            /\ req[r].retry_after > 0
            /\ (waited = r /\ Decided(r + 1)) => Admitted(r + 1)

\* --------------------------------------------- properties of the router
\* a request has been answered and its response has not left yet
Asked == last.op # "none"

\* the request carried an X-API-Key header
PresentsKey == last.api_key # NoApiKey

\* the presented key is the full secret of a row that was active, with an
\* active owner, when the request ran
ValidKey == last.match # 0 /\ last.record.is_active /\ last.owner_active

\* the endpoint depends on get_current_auth (RequireRead/Write/Admin)
Guarded == last.required # "none"

\* the bearer token is signed for a user who is active
ValidBearer == last.token \in Users /\ users[last.token]

\* the request was authenticated as the row of the key it presented
AuthenticatedByKey ==
    /\ last.key # 0
    /\ last.key = last.match
    /\ last.user = last.record.user_id

\* C12: a request that presents the correct full secret of a row whose
\* is_active is false is answered 401, whatever management operations came
\* before
C12_InactiveKeyRejected ==
    (Asked /\ last.match # 0 /\ ~last.record.is_active) => last.status = 401

\* C13: a request with X-API-Key only (no Authorization header), holding the
\* secret of an active row with an active owner, is authenticated by
\* get_current_auth as that owner with that row, and is not answered 401
C13_KeyOnlyAuthenticates ==
    (Asked /\ Guarded /\ last.token = Absent /\ ValidKey) =>
        /\ last.status # 401
        /\ AuthenticatedByKey

\* C14: when both X-API-Key and a bearer token are present the API key alone
\* decides (here with the database accepting every commit): an invalid key
\* is answered 401 even if the bearer token is valid, and a valid key
\* authenticates as its row, which is then held to the key's access level
C14_ApiKeyFirst ==
    (Asked /\ Guarded /\ last.token # Absent /\ PresentsKey
       /\ last.commit_ok) =>
        /\ ~ValidKey => last.status = 401
        /\ ValidKey =>
             /\ AuthenticatedByKey
             /\ last.status = 403 <=>
                  ~has_access_level(last.record.access_level, last.required)

\* read = 1 < write = 2 < admin = 3
rank(level) == IF level = "read" THEN 1 ELSE IF level = "write" THEN 2 ELSE 3

\* the request went past authentication and the access guard
PassedGuard == last.status \notin {401, 403, 500}

\* C15: for a caller authenticated by an API key of level L at an endpoint
\* that requires R, the guard admits the request iff rank(L) >= rank(R) and
\* answers 403 otherwise
C15_GuardByRank ==
    (Asked /\ Guarded /\ last.key # 0) =>
        IF rank(last.record.access_level) >= rank(last.required)
        THEN PassedGuard
        ELSE last.status = 403 /\ ~last.wrote

\* a write key passed a write check and the endpoint made its change
C15_Witness ==
    /\ Asked
    /\ last.key # 0
    /\ last.record.access_level = "write"
    /\ last.required = "write"
    /\ last.wrote

\* C16: a request with a valid bearer token and no API key passes the guard
\* for every required level, admin included: it is never answered 403
C16_BearerFullAccess ==
    (Asked /\ Guarded /\ ~PresentsKey /\ ValidBearer) =>
        /\ PassedGuard
        /\ last.user = last.token

\* a bearer-only request was served by an endpoint that requires admin
C16_Witness ==
    /\ Asked
    /\ last.required = "admin"
    /\ ~PresentsKey
    /\ ValidBearer
    /\ last.wrote

\* the operations that create, update or delete a company or a contact
EntityWriteOps ==
    {"create_company", "update_company", "delete_company",
     "create_contact", "update_contact", "delete_contact"}

\* the API-key management operations
KeyOps ==
    {"create_api_key", "list_api_keys", "get_api_key", "update_api_key",
     "delete_api_key", "regenerate_api_key"}

\* C17: a request whose credential is a valid READ-level API key is answered
\* 403 by every operation that creates, updates or deletes a company or a
\* contact, and the operation changes no stored entity
C17_ReadKeyCannotWrite ==
    (Asked /\ last.op \in EntityWriteOps /\ ValidKey
       /\ last.record.access_level = "read") =>
        /\ last.status = 403
        /\ ~last.wrote

\* C18: every API-key management operation answers 403 to a caller whose
\* credential is a valid read-level or write-level API key, and leaves the
\* access_level, rate_limit, is_active, prefix and hash of every row as they
\* were (here with the database accepting every commit)
C18_KeyManagementNeedsAdmin ==
    (Asked /\ last.op \in KeyOps /\ ValidKey /\ last.commit_ok
       /\ last.record.access_level \in {"read", "write"}) =>
        /\ last.status = 403
        /\ ~last.wrote

\* C19: when the last_used_at commit of validate_api_key fails, a request
\* with a valid, active API key is still authenticated and served, and the
\* request path has not waited on the write
C19_LastUsedFireAndForget ==
    (Asked /\ Guarded /\ last.token # Absent /\ ValidKey
       /\ ~last.commit_ok) =>
        /\ AuthenticatedByKey
        /\ last.status # 500
        /\ ~last.awaited

\* C20: while two active rows share a key_prefix, a request presenting a key
\* with that prefix (Authorization header present, commits accepted) is never
\* answered with an error: the full secret of either row authenticates
\* exactly that row, and a value that verifies against no row is answered 401
C20_PrefixCollisionTolerated ==
    (Asked /\ Guarded /\ last.token # Absent /\ PresentsKey
       /\ last.commit_ok /\ last.active_rows >= 2) =>
        /\ last.status # 500
        /\ ValidKey => AuthenticatedByKey
        /\ ~ValidKey => last.status = 401 /\ last.key = 0

\* what the caller sees of an authentication outcome
Observable(auth) == <<auth.status, auth.detail, auth.www_authenticate>>

\* C21: every API-key authentication failure (unknown prefix, wrong secret
\* for a known prefix, inactive key, inactive owner) is answered alike: two
\* requests that differ only in the failing key they present get the same
\* status (401), detail and headers
C21_FailuresIndistinguishable ==
    \A t \in Tokens \cup {Absent} :
        \A k1 \in ApiKeys, k2 \in ApiKeys :
            (~IsValid(k1) /\ ~IsValid(k2)) =>
                /\ get_current_auth(t, k1, TRUE).status = 401
                /\ Observable(get_current_auth(t, k1, TRUE))
                     = Observable(get_current_auth(t, k2, TRUE))

\* C22: identity is resolved before the rate-limit check and the limiter
\* keys on the resolved identity: a request whose API key fails
\* authentication (401) has put no entry into the window of an authenticated
\* identity
C22_ResolveBeforeLimit ==
    (inbound.status = 401 /\ inbound.request.api_key # NoApiKey
       /\ ~inbound.valid_key) =>
        ~(inbound.allowed /\ inbound.of_authenticated)

\* C24: the redis key is an injective function of the identity: a request
\* that maps to the key of the request just handled has the same identity
\* variant and the same discriminator
C24_KeyInjective ==
    inbound # NoInbound =>
        \A i \in RequestInputs :
            get_rate_limit_key(i) = inbound.redis_key =>
                Identity(i) = Identity(inbound.request)

\* every secret generate_api_key can hand out
FullKeys == Prefixes \X (1..MaxSecrets)

\* a request carrying api_key, with Authorization header t or none, is
\* authenticated as the row of that key
AcceptedWith(t, api_key) ==
    LET auth == get_current_auth(t, api_key, TRUE)
    IN auth.status = 0 /\ auth.key # 0

\* regenerate_api_key has just succeeded on the row last.target
Regenerated ==
    last.op = "regenerate_api_key" /\ last.status = 200 /\ last.wrote

\* C25: after regenerate_api_key succeeds on a record the record is active,
\* the secret it returned authenticates, and the secret it replaced never
\* authenticates again, whatever operations follow
C25_RegenerateReplacesSecret ==
    /\ [](Regenerated =>
            /\ keys[last.target].is_active
            /\ AcceptedWith(Absent, keys[last.target].key_hash[2])
            /\ \A t \in Tokens \cup {Absent} :
                  ~AcceptedWith(t, last.replaced))
    /\ \A old \in FullKeys :
          []((Regenerated /\ last.replaced = old) =>
                [](\A t \in Tokens \cup {Absent} : ~AcceptedWith(t, old)))

\* the limiter refused the request: check_rate_limit returned allowed=False,
\* or SimpleRateLimitMiddleware found total_count at the limit
Refusal(r) == req[r].checked /\ ~req[r].allowed

\* C26: a request refused by the rate limiter, under either middleware
\* class, never reaches call_next: the endpoint does not run for it
C26_RejectedNeverServed ==
    \A r \in Reqs :
        Refusal(r) => ~req[r].served /\ req[r].pc # "call_next"

\* SimpleRateLimitMiddleware has answered a request with 429 while the
\* endpoint is running for an admitted one
C26_Witness ==
    /\ strategy = "SimpleRateLimitMiddleware"
    /\ \E r, q \in Reqs :
         /\ Refusal(r) /\ req[r].pc = "done" /\ req[r].status = 429
         /\ req[q].allowed /\ req[q].pc = "call_next"

\* the requests the limiter let through whose timestamp lies in the 60
\* seconds that end at the timestamp of r
LetThroughWithin(r) ==
    {q \in Reqs : /\ req[q].checked /\ req[q].allowed
                  /\ req[q].now > req[r].now - Window
                  /\ req[q].now <= req[r].now}

\* C27: in SimpleRateLimitMiddleware the prune, the count and the insert of
\* a request are never interleaved with those of another request, so at
\* most default_rate requests of the identity are admitted in any trailing
\* 60 seconds and none is rejected while fewer than default_rate admitted
\* entries are in the window
C27_SimpleExclusive ==
    strategy = "SimpleRateLimitMiddleware" =>
        \A r \in Reqs :
            /\ req[r].pstep \in {0, 3}
            /\ (req[r].pstep = 3) = req[r].checked
            /\ (req[r].checked /\ req[r].allowed) =>
                  Cardinality(LetThroughWithin(r)) <= RATE_LIMIT_DEFAULT
            /\ Refusal(r) =>
                  Cardinality(LetThroughWithin(r)) >= RATE_LIMIT_DEFAULT

\* two requests of the identity are in dispatch at once: one is admitted
\* and waits for the endpoint, the other was checked meanwhile and refused;
\* a third was admitted after the window had passed
C27_Witness ==
    /\ strategy = "SimpleRateLimitMiddleware"
    /\ \E r, q, o \in Reqs :
         /\ req[r].allowed /\ req[r].pc = "call_next"
         /\ Refusal(q) /\ req[q].now - req[r].now < Window
         /\ req[o].allowed /\ req[o].now >= req[r].now + Window

\* C28: every admitted request whose entry is neither pruned nor expired is
\* represented by its own member of the identity's sorted set: the window
\* has at least as many members as such requests (two requests checked at
\* the same reading of the clock are both counted), and no ZREM of a
\* rejected request has taken an admitted request's member away
C28_OwnEntryPerAdmitted ==
    /\ \A q \in LiveExpected : req[q].now \in Live
    /\ Cardinality(Live) >= Cardinality(LiveExpected)

\* the endpoints addressed to one record, /{api_key_id}
RecordOps ==
    {"get_api_key", "update_api_key", "delete_api_key", "regenerate_api_key"}

\* the step answers a request of an authenticated admin-level caller for a
\* record that exists and belongs to another user
ForeignRecordStep ==
    /\ Idle
    /\ last'.op \in RecordOps
    /\ last'.status \notin {401, 403, 500}
    /\ last'.target # 0
    /\ keys[last'.target].exists
    /\ keys[last'.target].user_id # last'.user

\* the step answers list_api_keys for an authenticated admin-level caller
ListStep ==
    Idle /\ last'.op = "list_api_keys" /\ last'.status = 200

\* what both readings of C29 ask of a step: 404 for a foreign record with
\* the rows as they were, and a list of the caller's own rows
OwnerScoped ==
    /\ ForeignRecordStep => last'.status = 404 /\ keys' = keys
    /\ ListStep => \A k \in last'.items : keys[k].user_id = last'.user

C30_OwnerMustBeActive ==
    (Asked /\ Guarded /\ PresentsKey /\ last.token # Absent) =>
        /\ last.key # 0 => users[keys[last.key].user_id]
        /\ (last.match # 0 /\ last.record.is_active /\ ~last.owner_active)
              => last.status = 401
        /\ ~ValidKey => last.touched = 0

TypeOK ==
    /\ clock \in Nat
    /\ redis \in {"None", "client"}
    /\ \A r \in Reqs : req[r].status \in {0, 200, 429, 500}
    /\ waited \in 0..MaxRequests
    /\ changes \in 0..MaxChanges
    /\ \A k \in KeyIds :
          keys[k].exists => /\ keys[k].key_prefix \in Prefixes
                            /\ keys[k].access_level \in Levels
                            /\ keys[k].user_id \in Users
                            /\ keys[k].is_active \in BOOLEAN
    /\ \A u \in Users : users[u] \in BOOLEAN
    /\ store.company \in EntityStates /\ store.contact \in EntityStates
    /\ last.status \in {0, 200, 201, 204, 401, 403, 404, 409, 500}

\* C23: every completed response of the limiter, admitted or rejected with
\* 429, carries X-RateLimit-Limit, X-RateLimit-Remaining and X-RateLimit-Reset
\* with Limit > 0 and 0 <= Remaining <= Limit, and a 429 carries Retry-After
\* as well
C23_HeadersOnEveryResponse ==
    \A r \in Reqs :
        Decided(r) =>
            LET headers == ResponseHeaders(req[r])
            IN /\ {"X-RateLimit-Limit", "X-RateLimit-Remaining",
                    "X-RateLimit-Reset"} \subseteq DOMAIN headers
               /\ headers["X-RateLimit-Limit"] > 0
               /\ headers["X-RateLimit-Remaining"] >= 0
               /\ headers["X-RateLimit-Remaining"]
                      <= headers["X-RateLimit-Limit"]
               /\ req[r].status = 429 => "Retry-After" \in DOMAIN headers

====
